---- MODULE Spec2Model ----
(***************************************************************************)
(* State-machine model of the movie-sentiment API service.                 *)
(*                                                                         *)
(*   src/app.py       the Flask handlers (analyze_csv, search_movies,      *)
(*                    get_summary, get_results, clear_results,             *)
(*                    get_job_status, get_movies_list, database_stats)     *)
(*   src/database.py  the Mongo access functions the handlers call         *)
(*                                                                         *)
(* Strings the code trims, lower-cases, matches or sorts are sequences of  *)
(* one-character strings, so that strip(), lower(), the case-insensitive   *)
(* regex and the sort order are computed and not assumed.  The Mongo       *)
(* collection is a bag (multiset) of documents: the claims never depend    *)
(* on the order find() returns documents in.                               *)
(*                                                                         *)
(* Environment: the classifier answers every call with one of the          *)
(* outcomes the handler distinguishes; an enqueue or an insert_many may    *)
(* raise at call time; a read, count, delete or aggregate issued on a      *)
(* connected collection completes.  The three endpoints that only report   *)
(* connectivity (/api/test, /api/redis/status, /api/worker/status) change  *)
(* nothing and are left out.                                               *)
(*                                                                         *)
(* request, response, pre and calls record the last request served, so     *)
(* that what a handler returned can be compared with what it found.        *)
(***************************************************************************)
EXTENDS Bags, FiniteSets, Integers, Sequences, TLC

VARIABLES
    sentiment_queue,     \* app.py:29/33   "Queue" or None, set once at import
    client,              \* database.py:8/36  "MongoClient" or None, set once at import
    results_collection,  \* database.py:16  the documents of sentiment_db.results (a bag)
    jobs,                \* the jobs Redis holds, by job id (1..Len(jobs))
    clock,               \* datetime.now(), read at app.py:194
    request,             \* the last request served: handler and inputs
    response,            \* the response that handler returned
    pre,                 \* the collection and the number of jobs that handler found
    calls                \* the external calls that handler made

vars == <<sentiment_queue, client, results_collection, jobs, clock,
          request, response, pre, calls>>

None == "None"

\* ------------------------------------------------------------------ bounds
MaxClock == 1      \* classifier answers stamped with a fresh timestamp
MaxJobs == 1       \* jobs ever enqueued

\* ------------------------------------------------------------------ strings
Str_positive == <<"p","o","s","i","t","i","v","e">>
Str_negative == <<"n","e","g","a","t","i","v","e">>
Absent == <<"~">>        \* a field the document does not have

\* str.lower() on the letters the inputs use
LowerChar(c) ==
    CASE c = "A" -> "a" [] c = "B" -> "b" [] c = "N" -> "n"
      [] c = "O" -> "o" [] c = "P" -> "p" [] OTHER -> c

Lower(s) == [i \in DOMAIN s |-> LowerChar(s[i])]

RECURSIVE LStrip(_)
LStrip(s) == IF s # <<>> /\ Head(s) = " " THEN LStrip(Tail(s)) ELSE s

RECURSIVE RStrip(_)
RStrip(s) ==
    IF s # <<>> /\ s[Len(s)] = " " THEN RStrip(SubSeq(s, 1, Len(s) - 1)) ELSE s

\* str.strip()
Strip(s) == RStrip(LStrip(s))

\* sub occurs in s
Contains(s, sub) ==
    \E i \in 0..(Len(s) - Len(sub)) : SubSeq(s, i + 1, i + Len(sub)) = sub

\* {"$regex": re.escape(pat), "$options": "i"}: pat, taken literally, occurs
\* in the field, letter case ignored
RegexMatchI(field, pat) == Contains(Lower(field), Lower(pat))

\* code points, for the order sorted() and $sort put strings in
Ord(c) ==
    CASE c = " " -> 32 [] c = "A" -> 65 [] c = "B" -> 66 [] c = "N" -> 78
      [] c = "O" -> 79 [] c = "P" -> 80 [] c = "a" -> 97 [] c = "b" -> 98
      [] c = "n" -> 110 [] c = "o" -> 111 [] c = "v" -> 118 [] OTHER -> 120

RECURSIVE StrLess(_, _)
StrLess(a, b) ==
    IF a = <<>> THEN b # <<>>
    ELSE IF b = <<>> THEN FALSE
    ELSE IF Ord(Head(a)) < Ord(Head(b)) THEN TRUE
    ELSE IF Ord(Head(a)) > Ord(Head(b)) THEN FALSE
    ELSE StrLess(Tail(a), Tail(b))

RECURSIVE SortAscending(_)
SortAscending(S) ==
    IF S = {} THEN <<>>
    ELSE LET m == CHOOSE x \in S : \A y \in S \ {x} : StrLess(x, y)
         IN  <<m>> \o SortAscending(S \ {m})

RECURSIVE SumOver(_, _)
SumOver(f, S) ==
    IF S = {} THEN 0
    ELSE LET x == CHOOSE y \in S : TRUE IN f[x] + SumOver(f, S \ {x})

\* the bag of g[x] for x in bag B (g a function on the elements of B)
MapBag(g, B) ==
    LET img == {g[x] : x \in DOMAIN B}
    IN  [d \in img |-> SumOver(B, {x \in DOMAIN B : g[x] = d})]

\* the documents of bag B that satisfy the filter (a function to BOOLEAN)
FilterBag(keep, B) ==
    LET D == {x \in DOMAIN B : keep[x]} IN [d \in D |-> B[d]]

\* ------------------------------------------------------------------ data
T == 1000          \* app.py:148  len(reviews_batch) > 1000

L_Nova == <<"N","o","v","a">>
L_ab == <<"a","b">>
L_B == <<"B">>

Item(text, movie_name) == [text |-> text, movie_name |-> movie_name]

\* reviews_batch, app.py:141-146, as the bag of its {text, movie_name} items
ThresholdBatch == (Item("great film", L_ab) :> T - 1) @@ (Item("bad film", L_B) :> 1)
LargeBatch == (Item("great film", L_Nova) :> T) @@ (Item("bad film", L_B) :> 1)
Batches == {ThresholdBatch, LargeBatch}

\* the reasons analyze_csv rejects an upload before a batch exists
InvalidCsv == {"no_file", "bad_filename", "too_large", "unparsable",
               "missing_columns", "no_rows"}

\* what the classifier makes of a text: sentiment and confidence (in tenths)
Verdict(s, c) == [sentiment |-> s, confidence |-> c]
Classify(text) ==
    IF text = "bad film" THEN Verdict(Str_negative, 8) ELSE Verdict(Str_positive, 9)

\* POST /process-batch, answered 200: one result per review
ClassifierResults(batch) ==
    MapBag([it \in DOMAIN batch |->
              [movie_name |-> it.movie_name,
               sentiment |-> Classify(it.text).sentiment,
               confidence |-> Classify(it.text).confidence]], batch)

MLFailures == {"timeout", "connection_error", "not_200"}

\* a stored document; Absent, 0 and "" stand for fields it does not have
Doc(movie_name, sentiment, confidence, timestamp, processed_by, mode, job_id, status) ==
    [movie_name |-> movie_name, sentiment |-> sentiment, confidence |-> confidence,
     timestamp |-> timestamp, processed_by |-> processed_by,
     processing_mode |-> mode, job_id |-> job_id, status |-> status]

\* app.py:194-198: every result gets the call's timestamp and the sync marks
Stamp(results, timestamp) ==
    MapBag([r \in DOMAIN results |->
              Doc(r.movie_name, r.sentiment, r.confidence, timestamp,
                  "api_service_sync", "synchronous", 0, "")], results)

\* records a collection may hold when the process starts (database.py:19-23):
\* a terminal record of an earlier run and a pending one of a job still queued
ExistingRecords ==
    (Doc(L_ab, Str_negative, 7, 0, "api_service_sync", "synchronous", 0, "") :> 1)
    @@ (Doc(L_Nova, Absent, 0, 0, "worker_service", "background", 99, "queued") :> 1)

\* /api/search and /api/summary query parameters as sent
MovieParams == {<<>>, <<" ","n","O">>}
SentimentParams == {<<>>, <<" ","P","o","s","i","t","i","v","e">>, <<"b","a","d">>}
JobIds == 1..(MaxJobs + 1)

\* ------------------------------------------------------------------ database.py
\* results_collection is None
CollectionIsNone == client = None

\* an insert that empties the collection first
InsertManyReplacing(coll, docs) == docs

\* an insert that replaces the stored records of the movies it writes
InsertManyUpserting(coll, docs) ==
    FilterBag([d \in DOMAIN coll |->
                 \A e \in DOMAIN docs : e.movie_name # d.movie_name], coll) (+) docs

\* collection.insert_many(batch)
InsertMany(coll, docs) == coll (+) docs

\* a delete that removes nothing
DeleteNone(coll) == coll

\* collection.delete_many({})
DeleteMany(coll) == EmptyBag

\* a query that leaves the sentiment out
SearchFindIgnoringSentiment(coll, movie_name, sentiment) ==
    LET by_name == movie_name # <<>> /\ Strip(movie_name) # <<>>
    IN  [d \in {x \in DOMAIN coll :
                  by_name => RegexMatchI(x.movie_name, Strip(movie_name))} |-> coll[d]]

\* collection.find(query, {"_id": 0}) with the query search_movies_by_sentiment builds
SearchFind(coll, movie_name, sentiment) ==
    LET by_name == movie_name # <<>> /\ Strip(movie_name) # <<>>
        by_sent == sentiment # <<>> /\ Strip(sentiment) # <<>>
    IN  FilterBag([d \in DOMAIN coll |->
                     /\ by_name => RegexMatchI(d.movie_name, Strip(movie_name))
                     /\ by_sent => d.sentiment = Lower(Strip(sentiment))], coll)

search_movies_by_sentiment(movie_name, sentiment) ==
    IF CollectionIsNone THEN EmptyBag
    ELSE SearchFind(results_collection, movie_name, sentiment)

fetch_results_from_db ==
    IF CollectionIsNone THEN EmptyBag ELSE results_collection

\* the number clear_results_collection returns
clear_results_collection ==
    IF CollectionIsNone THEN 0 ELSE BagCardinality(results_collection)

\* collection.distinct("movie_name")
Distinct(coll) == {d.movie_name : d \in DOMAIN coll}

get_unique_movies ==
    IF CollectionIsNone THEN <<>>
    ELSE SortAscending({m \in Distinct(results_collection) :
                           m # <<>> /\ Strip(m) # <<>>})

\* the $match stage, present when a movie name is given
MatchStage(coll, movie_name) ==
    IF movie_name # <<>> /\ Strip(movie_name) # <<>>
    THEN FilterBag([d \in DOMAIN coll |->
                      RegexMatchI(d.movie_name, Strip(movie_name))], coll)
    ELSE coll

\* first $group: by (movie_name, sentiment), count and mean confidence; the
\* mean is kept exact, as the sum and the number of the confidences averaged
GroupBySentiment(coll) ==
    LET keys == {[movie_name |-> d.movie_name, sentiment |-> d.sentiment] :
                   d \in DOMAIN coll}
        of(k) == {d \in DOMAIN coll :
                    d.movie_name = k.movie_name /\ d.sentiment = k.sentiment}
        rated(k) == {d \in of(k) : d.sentiment # Absent}
    IN  {[_id |-> k,
          count |-> SumOver(coll, of(k)),
          avg_confidence |->
              [sum |-> SumOver([d \in rated(k) |-> d.confidence * coll[d]], rated(k)),
               n |-> SumOver(coll, rated(k))]] : k \in keys}

\* the accumulator written {"$sum": 1}: it counts the sentiments, not the reviews
TotalReviewsCountingGroups(groups) == Cardinality(groups)

\* the total_reviews accumulator of the second $group: {"$sum": "$count"}
TotalReviews(groups) == SumOver([g \in groups |-> g.count], groups)

\* second $group: by movie_name, pushing the per-sentiment entries
GroupByMovie(groups) ==
    LET names == {g._id.movie_name : g \in groups}
        of(n) == {g \in groups : g._id.movie_name = n}
    IN  {[_id |-> n,
          sentiments |-> {[sentiment |-> g._id.sentiment, count |-> g.count,
                           avg_confidence |-> g.avg_confidence] : g \in of(n)},
          total_reviews |-> TotalReviews(of(n))] : n \in names}

\* {"$sort": {"_id": 1}}
SortById(groups) ==
    LET order == SortAscending({g._id : g \in groups})
    IN  [i \in 1..Len(order) |-> CHOOSE g \in groups : g._id = order[i]]

get_sentiment_summary(movie_name) ==
    IF CollectionIsNone THEN <<>>
    ELSE SortById(GroupByMovie(GroupBySentiment(
             MatchStage(results_collection, movie_name))))

NoStats == [status |-> "", total_documents |-> 0, unique_movies |-> 0,
            positive_reviews |-> 0, negative_reviews |-> 0]

CountDocuments(coll, sentiment) ==
    BagCardinality(FilterBag([d \in DOMAIN coll |-> d.sentiment = sentiment], coll))

get_database_stats ==
    IF CollectionIsNone THEN [NoStats EXCEPT !.status = "disconnected"]
    ELSE [status |-> "connected",
          total_documents |-> BagCardinality(results_collection),
          unique_movies |-> Cardinality(Distinct(results_collection)),
          positive_reviews |-> CountDocuments(results_collection, Str_positive),
          negative_reviews |-> CountDocuments(results_collection, Str_negative)]

\* ------------------------------------------------------------------ rq
\* a job as Redis holds it: the task, its status and the reviews it carries
\* (the two strings a search job carries are never read back by this service)
Job(func, reviews) == [func |-> func, status |-> "queued", reviews |-> reviews]

\* an enqueue that puts the job on the queue twice
EnqueueTwice(js, func, reviews) ==
    Append(Append(js, Job(func, reviews)), Job(func, reviews))

\* sentiment_queue.enqueue(func, *args): one new job, whose id is returned
Enqueue(js, func, reviews) == Append(js, Job(func, reviews))

\* ------------------------------------------------------------------ app.py
NoRequest == [op |-> "", csv |-> "", batch |-> EmptyBag, enqueue |-> "",
              ml |-> "", insert |-> "", movie_name |-> <<>>,
              sentiment |-> <<>>, background |-> FALSE, job_id |-> 0]

NoResponse == [code |-> 0, error |-> "", success |-> FALSE, processing_mode |-> "",
               job_id |-> 0, count |-> 0, stored_count |-> 0, results |-> EmptyBag,
               summary |-> <<>>, movies |-> <<>>, status |-> "", stats |-> NoStats]

NoCalls == [enqueue |-> 0, classifier |-> 0, insert_many |-> 0, store |-> 0,
            fetch_job |-> 0]

Snapshot == [collection |-> results_collection, n_jobs |-> Len(jobs)]

\* the threshold compared with >= instead of >
UseBackgroundAtThreshold(queue, batch) == queue # None /\ BagCardinality(batch) >= T

\* the size compared without asking whether there is a queue
UseBackgroundBySizeOnly(queue, batch) == BagCardinality(batch) > T

\* app.py:148
UseBackground(queue, batch) == queue # None /\ BagCardinality(batch) > T

\* every classifier failure answered as an internal error
MLFailureCodeAlways500(ml) == 500

\* app.py:177-183, 220-224: the status a failed classifier call is answered with
MLFailureCode(ml) ==
    CASE ml = "timeout" -> 504
      [] ml = "connection_error" -> 503
      [] OTHER -> 500

MLFailureError(ml) ==
    CASE ml = "timeout" -> "ML service timeout"
      [] ml = "connection_error" -> "Cannot connect to ML service"
      [] ml = "not_200" -> "ML service returned error"
      [] OTHER -> "ML service returned no results"

\* app.py:100-136: the upload is rejected, nothing else happens
AnalyzeRejected(csv) ==
    /\ request' = [NoRequest EXCEPT !.op = "analyze", !.csv = csv]
    /\ response' = [NoResponse EXCEPT !.code = 400, !.error = csv]
    /\ pre' = Snapshot
    /\ calls' = NoCalls
    /\ UNCHANGED <<sentiment_queue, client, results_collection, jobs, clock>>

\* app.py:148-165: the batch is enqueued as one job and the handler returns
AnalyzeQueued(batch) ==
    /\ UseBackground(sentiment_queue, batch)
    /\ Len(jobs) < MaxJobs
    /\ jobs' = Enqueue(jobs, "worker_tasks.process_sentiment_batch", batch)
    /\ request' = [NoRequest EXCEPT !.op = "analyze", !.csv = "valid",
                                    !.batch = batch, !.enqueue = "ok"]
    /\ response' = [NoResponse EXCEPT !.code = 200, !.success = TRUE,
                                      !.processing_mode = "background",
                                      !.job_id = Len(jobs'),
                                      !.count = BagCardinality(batch)]
    /\ pre' = Snapshot
    /\ calls' = [NoCalls EXCEPT !.enqueue = 1]
    /\ UNCHANGED <<sentiment_queue, client, results_collection, clock>>

\* a failed enqueue taken as the end of background processing
QueueDroppedOnFailure(queue, enq) == IF enq = "raised" THEN None ELSE queue

\* app.py:167-168, 264-265: the except branch only prints; sentiment_queue is
\* not assigned, whatever the enqueue did
QueueAfterEnqueue(queue, enq) == queue

\* whether the synchronous path is entered with the enqueue in state enq:
\* not called (app.py:149 false) or called and raised (app.py:167-168)
EntersSync(batch, enq) ==
    IF UseBackground(sentiment_queue, batch) THEN enq = "raised" ELSE enq = "not_called"

\* app.py:171-191, 220-224: the classifier call fails or brings no results
AnalyzeMLFailed(batch, enq, ml) ==
    /\ EntersSync(batch, enq)
    /\ request' = [NoRequest EXCEPT !.op = "analyze", !.csv = "valid",
                                    !.batch = batch, !.enqueue = enq, !.ml = ml]
    /\ response' = [NoResponse EXCEPT !.code = MLFailureCode(ml),
                                      !.error = MLFailureError(ml)]
    /\ pre' = Snapshot
    /\ calls' = [NoCalls EXCEPT !.enqueue = IF enq = "raised" THEN 1 ELSE 0,
                                !.classifier = 1]
    /\ sentiment_queue' = QueueAfterEnqueue(sentiment_queue, enq)
    /\ UNCHANGED <<client, results_collection, jobs, clock>>

\* app.py:171-218: the classifier answers; the results are stamped and inserted
\* a failed insert answered as the classifier's non-200 answer is
InsertFailureAsUpstreamError ==
    [NoResponse EXCEPT !.code = 500, !.error = "ML service returned error"]

\* app.py:214-218: insert_results raised (database.py:42-43 when the collection
\* is None, database.py:59-61 when insert_many failed)
InsertFailureResponse ==
    [NoResponse EXCEPT !.code = 500,
                       !.error = "Results processed but failed to save to database"]

AnalyzeClassified(batch, enq, ins) ==
    /\ EntersSync(batch, enq)
    /\ clock <= MaxClock
    /\ LET batch_results == Stamp(ClassifierResults(batch), clock)
           stored == ~CollectionIsNone /\ ins = "ok"
       IN  /\ clock' = IF stored THEN clock + 1 ELSE clock
           /\ request' = [NoRequest EXCEPT !.op = "analyze", !.csv = "valid",
                                           !.batch = batch, !.enqueue = enq,
                                           !.ml = "ok",
                                           !.insert = IF CollectionIsNone
                                                      THEN "not_called" ELSE ins]
           /\ results_collection' =
                  IF stored THEN InsertMany(results_collection, batch_results)
                  ELSE results_collection
           /\ response' =
                  IF stored
                  THEN [NoResponse EXCEPT !.code = 200, !.success = TRUE,
                                          !.processing_mode = "synchronous",
                                          !.count = BagCardinality(batch_results),
                                          !.stored_count = BagCardinality(batch_results)]
                  ELSE InsertFailureResponse
           /\ pre' = Snapshot
           /\ calls' = [NoCalls EXCEPT !.enqueue = IF enq = "raised" THEN 1 ELSE 0,
                                       !.classifier = 1,
                                       !.insert_many = IF CollectionIsNone THEN 0 ELSE 1]
    /\ sentiment_queue' = QueueAfterEnqueue(sentiment_queue, enq)
    /\ UNCHANGED <<client, jobs>>

analyze_csv ==
    \/ \E csv \in InvalidCsv : AnalyzeRejected(csv)
    \/ \E batch \in Batches : AnalyzeQueued(batch)
    \/ \E batch \in Batches, enq \in {"not_called", "raised"},
          ml \in MLFailures \cup {"no_results"} : AnalyzeMLFailed(batch, enq, ml)
    \/ \E batch \in Batches, enq \in {"not_called", "raised"},
          ins \in {"ok", "raised"} : AnalyzeClassified(batch, enq, ins)

\* app.py:238: a sentiment that is given must be one of the two labels
ValidSentiment(sentiment) ==
    sentiment = <<>> \/ sentiment \in {Str_positive, Str_negative}

SearchRequest(movie_name, sentiment, background, enq) ==
    [NoRequest EXCEPT !.op = "search", !.movie_name = movie_name,
                      !.sentiment = sentiment, !.background = background,
                      !.enqueue = enq]

\* app.py:235-240: 400 before anything is enqueued or read
SearchRejected(movie_name, sentiment, background) ==
    /\ ~ValidSentiment(Lower(Strip(sentiment)))
    /\ request' = SearchRequest(movie_name, sentiment, background, "not_called")
    /\ response' = [NoResponse EXCEPT !.code = 400, !.error = "Invalid sentiment"]
    /\ pre' = Snapshot
    /\ calls' = NoCalls
    /\ UNCHANGED <<sentiment_queue, client, results_collection, jobs, clock>>

\* every search enqueued whenever the queue is there
UseBackgroundSearchAlways(queue, background) == queue # None

\* app.py:242
UseBackgroundSearch(queue, background) == queue # None /\ background

\* app.py:242-262: the search is enqueued and only the job id is returned
SearchQueued(movie_name, sentiment, background) ==
    /\ ValidSentiment(Lower(Strip(sentiment)))
    /\ UseBackgroundSearch(sentiment_queue, background)
    /\ Len(jobs) < MaxJobs
    /\ jobs' = Enqueue(jobs, "background_search", EmptyBag)
    /\ request' = SearchRequest(movie_name, sentiment, background, "ok")
    /\ response' = [NoResponse EXCEPT !.code = 200, !.success = TRUE,
                                      !.processing_mode = "background",
                                      !.job_id = Len(jobs')]
    /\ pre' = Snapshot
    /\ calls' = [NoCalls EXCEPT !.enqueue = 1]
    /\ UNCHANGED <<sentiment_queue, client, results_collection, clock>>

\* app.py:264-281: answered from the collection
SearchImmediate(movie_name, sentiment, background, enq) ==
    /\ ValidSentiment(Lower(Strip(sentiment)))
    /\ IF UseBackgroundSearch(sentiment_queue, background)
       THEN enq = "raised" ELSE enq = "not_called"
    /\ LET results == search_movies_by_sentiment(Strip(movie_name),
                                                 Lower(Strip(sentiment)))
       IN  response' = [NoResponse EXCEPT !.code = 200, !.success = TRUE,
                                          !.processing_mode = "immediate",
                                          !.results = results,
                                          !.count = BagCardinality(results)]
    /\ request' = SearchRequest(movie_name, sentiment, background, enq)
    /\ pre' = Snapshot
    /\ calls' = [NoCalls EXCEPT !.enqueue = IF enq = "raised" THEN 1 ELSE 0,
                                !.store = IF CollectionIsNone THEN 0 ELSE 1]
    /\ sentiment_queue' = QueueAfterEnqueue(sentiment_queue, enq)
    /\ UNCHANGED <<client, results_collection, jobs, clock>>

search_movies ==
    \E movie_name \in MovieParams, sentiment \in SentimentParams :
        \/ \E background \in BOOLEAN : SearchRejected(movie_name, sentiment, background)
        \/ \E background \in BOOLEAN : SearchQueued(movie_name, sentiment, background)
        \/ \E background \in BOOLEAN, enq \in {"not_called", "raised"} :
               SearchImmediate(movie_name, sentiment, background, enq)

\* app.py:287-297
get_movies_list ==
    /\ request' = [NoRequest EXCEPT !.op = "movies"]
    /\ response' = [NoResponse EXCEPT !.code = 200, !.success = TRUE,
                                      !.movies = get_unique_movies,
                                      !.count = Len(get_unique_movies)]
    /\ pre' = Snapshot
    /\ calls' = [NoCalls EXCEPT !.store = IF CollectionIsNone THEN 0 ELSE 1]
    /\ UNCHANGED <<sentiment_queue, client, results_collection, jobs, clock>>

\* app.py:299-316
get_summary(movie_name) ==
    /\ request' = [NoRequest EXCEPT !.op = "summary", !.movie_name = movie_name]
    /\ response' = [NoResponse EXCEPT !.code = 200, !.success = TRUE,
                        !.summary = get_sentiment_summary(Strip(movie_name))]
    /\ pre' = Snapshot
    /\ calls' = [NoCalls EXCEPT !.store = IF CollectionIsNone THEN 0 ELSE 1]
    /\ UNCHANGED <<sentiment_queue, client, results_collection, jobs, clock>>

\* app.py:318-329
get_results ==
    /\ request' = [NoRequest EXCEPT !.op = "results"]
    /\ response' = [NoResponse EXCEPT !.code = 200, !.success = TRUE,
                                      !.results = fetch_results_from_db,
                                      !.count = BagCardinality(fetch_results_from_db)]
    /\ pre' = Snapshot
    /\ calls' = [NoCalls EXCEPT !.store = IF CollectionIsNone THEN 0 ELSE 1]
    /\ UNCHANGED <<sentiment_queue, client, results_collection, jobs, clock>>

\* app.py:331-340
clear_results ==
    /\ request' = [NoRequest EXCEPT !.op = "clear"]
    /\ response' = [NoResponse EXCEPT !.code = 200, !.success = TRUE,
                                      !.count = clear_results_collection]
    /\ results_collection' =
           IF CollectionIsNone THEN results_collection
           ELSE DeleteMany(results_collection)
    /\ pre' = Snapshot
    /\ calls' = [NoCalls EXCEPT !.store = IF CollectionIsNone THEN 0 ELSE 1]
    /\ UNCHANGED <<sentiment_queue, client, jobs, clock>>

\* app.py:63-75
database_stats ==
    /\ request' = [NoRequest EXCEPT !.op = "stats"]
    /\ response' = [NoResponse EXCEPT !.code = 200, !.success = TRUE,
                                      !.stats = get_database_stats]
    /\ pre' = Snapshot
    /\ calls' = [NoCalls EXCEPT !.store = IF CollectionIsNone THEN 0 ELSE 1]
    /\ UNCHANGED <<sentiment_queue, client, results_collection, jobs, clock>>

\* Job.fetch(job_id): the job, or NoSuchJobError for an id Redis does not hold
JobKnown(js, job_id) == job_id \in DOMAIN js

\* app.py:362-363: the status an exception of Job.fetch is answered with
JobFetchErrorCode == 500

\* app.py:342-363
get_job_status(job_id) ==
    /\ request' = [NoRequest EXCEPT !.op = "job", !.job_id = job_id]
    /\ response' =
           IF sentiment_queue = None
           THEN [NoResponse EXCEPT !.code = 503,
                                   !.error = "Background processing not available"]
           ELSE IF JobKnown(jobs, job_id)
           THEN [NoResponse EXCEPT !.code = 200, !.success = TRUE,
                                   !.job_id = job_id, !.status = jobs[job_id].status]
           ELSE [NoResponse EXCEPT !.code = JobFetchErrorCode,
                                   !.error = "Failed to get job status"]
    /\ pre' = Snapshot
    /\ calls' = [NoCalls EXCEPT !.fetch_job = IF sentiment_queue = None THEN 0 ELSE 1]
    /\ UNCHANGED <<sentiment_queue, client, results_collection, jobs, clock>>

\* ------------------------------------------------------------------ worker
\* the worker service, outside this process, takes a queued job ...
WorkerStart(j) ==
    /\ j \in DOMAIN jobs /\ jobs[j].status = "queued"
    /\ jobs' = [jobs EXCEPT ![j].status = "started"]
    /\ UNCHANGED <<sentiment_queue, client, results_collection, clock,
                   request, response, pre, calls>>

\* ... and ends it, finished or failed
WorkerEnd(j, status) ==
    /\ j \in DOMAIN jobs /\ jobs[j].status = "started"
    /\ jobs' = [jobs EXCEPT ![j].status = status]
    /\ UNCHANGED <<sentiment_queue, client, results_collection, clock,
                   request, response, pre, calls>>

\* ------------------------------------------------------------------ system
\* app.py:22-33 and database.py:6-38: both connections are tried once, at import
\* the result a finished batch job holds: the classification of its reviews
JobResult(job) ==
    IF job.func = "worker_tasks.process_sentiment_batch" /\ job.status = "finished"
    THEN ClassifierResults(job.reviews)
    ELSE EmptyBag

Init ==
    /\ sentiment_queue \in {None, "Queue"}
    /\ client \in {None, "MongoClient"}
    /\ results_collection \in
           IF client = None THEN {EmptyBag} ELSE {EmptyBag, ExistingRecords}
    /\ jobs = <<>>
    /\ clock = 1
    /\ request = NoRequest
    /\ response = NoResponse
    /\ pre = [collection |-> results_collection, n_jobs |-> 0]
    /\ calls = NoCalls

Next ==
    \/ analyze_csv
    \/ search_movies
    \/ get_movies_list
    \/ \E movie_name \in MovieParams : get_summary(movie_name)
    \/ get_results
    \/ clear_results
    \/ database_stats
    \/ \E job_id \in JobIds : get_job_status(job_id)
    \/ \E j \in 1..MaxJobs : WorkerStart(j)
    \/ \E j \in 1..MaxJobs, status \in {"finished", "failed"} : WorkerEnd(j, status)

Spec == Init /\ [][Next]_vars

\* ------------------------------------------------------------------ claims
Size(batch) == BagCardinality(batch)
AnalyzedBatch == request.op = "analyze" /\ request.csv = "valid"
Terminal(d) == d.sentiment \in {Str_positive, Str_negative}
\* the records the last request added to the collection
Added == results_collection (-) pre.collection

\* C1: while the queue is available, a validated batch is handed to the queue
\* exactly when it holds more than T items; a batch of T items or fewer is
\* sent to the classifier and is never answered in background mode
C1_DispatchBySize ==
    (AnalyzedBatch /\ sentiment_queue # None) =>
        /\ (Size(request.batch) > T) <=> (calls.enqueue = 1)
        /\ Size(request.batch) <= T =>
               calls.classifier = 1 /\ response.processing_mode # "background"
        /\ (Size(request.batch) > T /\ request.enqueue = "ok") =>
               calls.classifier = 0 /\ response.processing_mode = "background"

C1_Witness ==
    /\ AnalyzedBatch /\ sentiment_queue # None
    /\ Size(request.batch) = T
    /\ response.processing_mode = "synchronous"

\* what C2 promises of the collection: exactly len(batch) more records than
\* before, each terminal, marked synchronous and stamped with the one
\* timestamp of the call, the earlier records all still there
C2_Persisted ==
    /\ response.code = 200 /\ response.processing_mode = "synchronous"
    /\ pre.collection \sqsubseteq results_collection
    /\ BagCardinality(Added) = Size(request.batch)
    /\ \A d \in DOMAIN Added :
           /\ Terminal(d)
           /\ d.processing_mode = "synchronous"
           /\ d.timestamp = clock - 1
    /\ \A d \in DOMAIN pre.collection : d.timestamp < clock - 1

\* C2 as claimed: every batch of at most T items that the classifier answers
\* successfully is reported synchronous and persisted
C2_AsClaimed ==
    (AnalyzedBatch /\ Size(request.batch) <= T /\ request.ml = "ok") => C2_Persisted

\* C2, amended: every batch of at most T items that the classifier answers
\* successfully, when the Result Store is connected and its insert succeeds,
\* is reported synchronous and persisted
C2_SyncPersists ==
    (AnalyzedBatch /\ Size(request.batch) <= T /\ request.ml = "ok"
        /\ request.insert = "ok") => C2_Persisted

C2_Witness ==
    /\ AnalyzedBatch /\ Size(request.batch) <= T
    /\ request.ml = "ok" /\ request.insert = "ok"
    /\ pre.collection # EmptyBag
    /\ response.stored_count = T

\* C3 as claimed: a batch of more than T items, enqueued without failure, is
\* answered in background mode, adds len(batch) jobs and len(batch) pending
\* records with distinct job ids
C3_AsClaimed ==
    (AnalyzedBatch /\ sentiment_queue # None /\ Size(request.batch) > T
        /\ request.enqueue = "ok") =>
        /\ response.processing_mode = "background"
        /\ Len(jobs) = pre.n_jobs + Size(request.batch)
        /\ BagCardinality(Added) = Size(request.batch)
        /\ \A d \in DOMAIN Added :
               ~Terminal(d) /\ d.job_id \in DOMAIN jobs /\ Added[d] = 1

\* C3, amended: a batch of more than T items, enqueued without failure, is
\* answered in background mode with the id of the one job that was enqueued
\* for the whole batch, and the collection is left as it was
C3_OneJobForTheBatch ==
    (AnalyzedBatch /\ sentiment_queue # None /\ Size(request.batch) > T
        /\ request.enqueue = "ok") =>
        /\ response.code = 200 /\ response.processing_mode = "background"
        /\ response.count = Size(request.batch)
        /\ Len(jobs) = pre.n_jobs + 1
        /\ response.job_id = Len(jobs)
        /\ jobs[response.job_id].func = "worker_tasks.process_sentiment_batch"
        /\ jobs[response.job_id].reviews = request.batch
        /\ results_collection = pre.collection
        /\ calls.classifier = 0 /\ calls.insert_many = 0

C3_Witness ==
    /\ AnalyzedBatch /\ Size(request.batch) > T /\ request.enqueue = "ok"
    /\ response.processing_mode = "background"
    /\ results_collection # EmptyBag

\* C4: when the classifier call of the synchronous path times out, cannot
\* connect or is answered with a status other than 200, the caller gets the
\* error of that kind (504, 503, 500) and the collection is as it was
C4_FailedCallPersistsNothing ==
    (AnalyzedBatch /\ request.ml \in MLFailures) =>
        /\ request.ml = "timeout" => response.code = 504
        /\ request.ml = "connection_error" => response.code = 503
        /\ request.ml = "not_200" => response.code = 500
        /\ ~response.success /\ response.error # ""
        /\ calls.classifier = 1 /\ calls.insert_many = 0
        /\ results_collection = pre.collection

C4_Witness ==
    /\ AnalyzedBatch /\ request.ml = "timeout" /\ response.code = 504
    /\ results_collection # EmptyBag

\* C5: when the queue was unavailable at startup, nothing is ever enqueued,
\* every batch whatever its size goes to the classifier and is never answered
\* in background mode, and every job lookup is answered 503
C5_NoQueueMeansSynchronous ==
    sentiment_queue = None =>
        /\ jobs = <<>> /\ calls.enqueue = 0
        /\ AnalyzedBatch =>
               /\ calls.classifier = 1
               /\ response.processing_mode # "background"
               /\ response.success => response.processing_mode = "synchronous"
        /\ request.op = "job" =>
               response.code = 503 /\ response.code # 404 /\ ~response.success

C5_Witness ==
    /\ sentiment_queue = None /\ AnalyzedBatch
    /\ Size(request.batch) > T
    /\ response.processing_mode = "synchronous"

NameFilter == Strip(request.movie_name)
SentimentFilter == Lower(Strip(request.sentiment))
LabelMatches(d) ==
    NameFilter = <<>> \/ \E i \in 1..Len(d.movie_name) :
        /\ i + Len(NameFilter) - 1 <= Len(d.movie_name)
        /\ \A k \in 1..Len(NameFilter) :
               LowerChar(d.movie_name[i + k - 1]) = LowerChar(NameFilter[k])
\* how many stored records satisfy P (a function on the stored documents)
CountWhere(P) ==
    SumOver(results_collection, {d \in DOMAIN results_collection : P[d]})

C9_AsClaimed ==
    [][(request'.op = "job" /\ jobs' = jobs /\ sentiment_queue # None) =>
          IF request'.job_id \in DOMAIN jobs
          THEN response'.code = 200 /\ response'.status = jobs[request'.job_id].status
          ELSE response'.code = 404]_vars

\* C10 as claimed: when the Result Store was found disconnected at startup,
\* every answer that depends on it says so (an error, or a status of
\* disconnected) instead of answering like a connected, empty store
C10_StoreRequest ==
    \/ request.op \in {"results", "movies", "summary", "clear", "stats"}
    \/ request.op = "search" /\ response.processing_mode = "immediate"
    \/ AnalyzedBatch /\ request.ml = "ok"
C10_AsClaimed ==
    (client = None /\ C10_StoreRequest) =>
        \/ ~response.success /\ response.error # ""
        \/ response.stats.status = "disconnected"

\* C11: when the enqueue of a batch of more than T items raises, that call
\* goes on to the classifier (one call, nothing enqueued, never answered in
\* background mode) and, the classifier answering and the insert succeeding,
\* persists the batch and reports mode synchronous; the queue stays
\* available, and the next batch of more than T items is enqueued again
C11_FallbackForThatCallOnly ==
    /\ []((AnalyzedBatch /\ request.enqueue = "raised") =>
            /\ Size(request.batch) > T
            /\ sentiment_queue # None
            /\ calls.enqueue = 1 /\ calls.classifier = 1
            /\ Len(jobs) = pre.n_jobs
            /\ response.processing_mode # "background"
            /\ (request.ml = "ok" /\ request.insert = "ok") => C2_Persisted)
    /\ [][sentiment_queue' = sentiment_queue]_vars
    /\ [][(request.enqueue = "raised" /\ request'.op = "analyze"
             /\ request'.csv = "valid" /\ Size(request'.batch) > T) =>
            calls'.enqueue = 1]_vars

C11_Witness ==
    /\ AnalyzedBatch /\ request.enqueue = "raised"
    /\ sentiment_queue # None
    /\ response.processing_mode = "synchronous"
    /\ response.stored_count = T + 1

C13_AsClaimed ==
    [][(request'.op = "results" /\ jobs' = jobs /\ ~CollectionIsNone) =>
          \A j \in DOMAIN jobs :
              \A r \in DOMAIN JobResult(jobs[j]) :
                  LET got == {d \in DOMAIN response'.results :
                                 /\ Terminal(d)
                                 /\ d.movie_name = r.movie_name
                                 /\ d.sentiment = r.sentiment
                                 /\ d.confidence = r.confidence}
                  IN  SumOver(response'.results, got) >= JobResult(jobs[j])[r]]_vars

\* C14: when the classifier answered a synchronous dispatch and the insert
\* raised, or the collection is None, the call is answered with an error
\* status and no success flag, in no processing mode and with nothing
\* stored, and its status and message together are those of no
\* classification failure
C14_PersistErrorIsDistinct ==
    (AnalyzedBatch /\ request.ml = "ok"
        /\ request.insert \in {"raised", "not_called"}) =>
        /\ ~response.success
        /\ response.code >= 400
        /\ response.processing_mode = "" /\ response.stored_count = 0
        /\ results_collection = pre.collection
        /\ \A ml \in MLFailures \cup {"no_results"} :
               <<response.code, response.error>> #
                   <<MLFailureCode(ml), MLFailureError(ml)>>

C14_Witness ==
    /\ AnalyzedBatch /\ request.ml = "ok" /\ request.insert = "raised"
    /\ calls.classifier = 1 /\ calls.insert_many = 1
    /\ response.code = 500
    /\ results_collection = ExistingRecords

\* C15: a search whose sentiment is neither empty nor positive nor negative
\* is answered 400 with nothing enqueued and the store not read; a valid
\* search asking for background with the queue available and the enqueue
\* succeeding adds one background_search job and returns its id with mode
\* background, no results and no store read; a valid search that did not
\* ask for background, or found no queue, or whose enqueue raised, is
\* answered with mode immediate from the collection, nothing enqueued
C15_SearchDispatch ==
    request.op = "search" =>
        LET valid == SentimentFilter \in {<<>>, Str_positive, Str_negative}
            wanted == request.background /\ sentiment_queue # None
        IN  /\ ~valid =>
                   /\ response.code = 400 /\ ~response.success
                   /\ calls = NoCalls
                   /\ Len(jobs) = pre.n_jobs
                   /\ response.results = EmptyBag
                   /\ response.processing_mode = ""
            /\ valid =>
                   /\ response.code = 200 /\ response.success
                   /\ request.enqueue =
                          IF wanted THEN (IF response.processing_mode = "background"
                                          THEN "ok" ELSE "raised")
                          ELSE "not_called"
                   /\ calls.enqueue = IF wanted THEN 1 ELSE 0
            /\ (valid /\ wanted /\ request.enqueue = "ok") =>
                   /\ response.processing_mode = "background"
                   /\ Len(jobs) = pre.n_jobs + 1
                   /\ response.job_id = Len(jobs)
                   /\ jobs[response.job_id].func = "background_search"
                   /\ calls.store = 0
                   /\ response.results = EmptyBag /\ response.count = 0
            /\ (valid /\ ~(wanted /\ request.enqueue = "ok")) =>
                   /\ response.processing_mode = "immediate"
                   /\ Len(jobs) = pre.n_jobs
                   /\ response.job_id = 0
                   /\ ~CollectionIsNone => calls.store = 1
                   /\ response.results \sqsubseteq results_collection
                   /\ response.count = BagCardinality(response.results)
                   /\ (NameFilter = <<>> /\ SentimentFilter = <<>>) =>
                          response.results = results_collection

C15_Witness ==
    /\ request.op = "search" /\ request.background
    /\ SentimentFilter = Str_positive
    /\ response.processing_mode = "background" /\ response.job_id = 1
    /\ \E d \in DOMAIN results_collection : d.sentiment = Str_positive

====
